---- MODULE Spec2Model ----
(***************************************************************************)
(* Model of esputil's src/esp_flash.cpp: main() and do_flash<ChipID>().    *)
(*                                                                         *)
(* The state is the command line (vm), the position of the single thread   *)
(* in main/do_flash (pc), the locals of do_flash, the std::ifstream        *)
(* holding the image (file), the serial loader, and two history variables: *)
(* log, the requests handed to loader.transceive in the order they were    *)
(* issued, and patched, the calls of set_binary_header.                    *)
(*                                                                         *)
(* What the target sends back (the identification register, the bytes of   *)
(* the flash probe), whether an exchange succeeds, and what the file       *)
(* system holds (whether the image opens, its size, whether a read fails)  *)
(* are inputs, drawn where the code reads them.                            *)
(*                                                                         *)
(* The loop counter `sequence` is a std::uint32_t and wraps; the model     *)
(* keeps the wrap but scales the width from 32 bits to SeqWidth bits, and  *)
(* keeps every image shorter than SeqMod blocks, as every image that a     *)
(* 32-bit file_size can describe is shorter than 2^32 blocks.              *)
(***************************************************************************)
EXTENDS Integers, Sequences, FiniteSets, TLC

VARIABLES vm, NDEBUG, pc, opt, exit_status, loader, log, chip_id_ret,
          flash_read, magic_number, spi_mode, spi_speed, flash_chip_size,
          file, file_size, packet_size, sequence, byte_read, patched

vars == <<vm, NDEBUG, pc, opt, exit_status, loader, log, chip_id_ret,
          flash_read, magic_number, spi_mode, spi_speed, flash_chip_size,
          file, file_size, packet_size, sequence, byte_read, patched>>

\* the locals of do_flash that the probe sets
geometry == <<flash_read, magic_number, spi_mode, spi_speed, flash_chip_size>>
\* the locals of do_flash that the image and the program loop set
image == <<file, file_size, packet_size, sequence, byte_read, patched>>

----------------------------------------------------------------------------
(* Bounds of the model *)

\* images hold up to MaxBlocks whole blocks, plus a remainder
MaxBlocks == 2
\* width in bits of the model's sequence counter (32 in the program)
SeqWidth == 3
\* calls of set_binary_header that the history keeps
MaxPatches == 2

SeqMod == 2 ^ SeqWidth
\* requests that the history keeps: enough for the counter to wrap
MaxLog == 6 + SeqMod + 2

----------------------------------------------------------------------------
(* Program constants *)

BLOCK_SIZE == 4096
ESP_MAGIC_NUMBER == 233

\* the keys of FLASH_FN_MAP
FLASH_FN_MAP == {"esp32c3"}

\* the numeric identifiers that esplink::get_chip_info knows
CHIP_REGISTRY == {1763790959}

----------------------------------------------------------------------------
(* Inputs *)

\* file names, as sequences of characters
BinName == <<"a", ".", "b", "i", "n">>
ElfName == <<"a", ".", "e", "l", "f">>
FileNames == {BinName, ElfName, <<"e", "l", "f">>, <<".", "e", "l", "f">>}

\* the first positional argument; "" stands for no positional argument
Tokens == {"flash", "info", "monitor", "mon", "erase", ""}
ChipTags == {"esp32c3", "esp8266"}
NoValue == "<none>"
FlashParams == {NoValue, "dio,40m,4MB"}
Offsets == {NoValue, "10000"}

\* sizes of the image: k whole blocks plus a remainder of 0, 1 or B - 1 bytes
FileSizes == {k * BLOCK_SIZE + r : k \in 0..MaxBlocks, r \in {0, 1, BLOCK_SIZE - 1}}

\* values the identification register may hold
ChipIdValues == CHIP_REGISTRY \cup {0}

\* the first four of the 16 bytes that FLASH_READ_SLOW(0, 16) reads back
FlashReadData == {<<m, 0, sm, b3>> : m \in {ESP_MAGIC_NUMBER, 255}, sm \in {0, 2}, b3 \in {35, 255}}

----------------------------------------------------------------------------
(* Pure helpers *)

Min(a, b) == IF a < b THEN a ELSE b

\* position of the last "." of a name, 0 if there is none
LastDot(name) ==
  LET dots == {i \in 1..Len(name) : name[i] = "."}
  IN IF dots = {} THEN 0 ELSE CHOOSE i \in dots : \A j \in dots : j <= i

\* std::filesystem::path::extension() of a one-component path: the part of the
\* file name from its last period on, the period included; empty when there is
\* no period, when the only period is the first character, and for "." and ".."
extension(name) ==
  IF LastDot(name) <= 1 \/ name = <<".", ".">>
  THEN <<>>
  ELSE SubSeq(name, LastDot(name), Len(name))

\* operator>> that knows the token "mon" but not "monitor"
ParseCommandLineOption_NoMonitor(token) ==
  IF token = "flash" THEN [opt |-> "Flash", fail |-> FALSE]
  ELSE IF token = "info" THEN [opt |-> "Info", fail |-> FALSE]
  ELSE IF token = "mon" THEN [opt |-> "Monitor", fail |-> FALSE]
  ELSE [opt |-> "NoOpt", fail |-> TRUE]

\* operator>>(std::istream&, CommandLineOption&): the option a token denotes
\* and whether the stream is left in a failed state
ParseCommandLineOption(token) ==
  IF token = "flash" THEN [opt |-> "Flash", fail |-> FALSE]
  ELSE IF token = "info" THEN [opt |-> "Info", fail |-> FALSE]
  ELSE IF token = "monitor" \/ token = "mon" THEN [opt |-> "Monitor", fail |-> FALSE]
  ELSE [opt |-> "NoOpt", fail |-> TRUE]

\* esplink::get_chip_info: whether the registry knows the identifier
get_chip_info(value) == value \in CHIP_REGISTRY

\* std::uint32_t: a 32-bit unsigned value, held as two 16-bit halves so that
\* every value of the type can be written down
Half == 2 ^ 16
ToU32(n) == [hi |-> (n \div Half) % Half, lo |-> n % Half]

\* a + b in std::uint32_t: the carry out of the upper half is lost
Add32(a, b) ==
  LET lo == a.lo + b.lo
  IN [hi |-> (a.hi + b.hi + lo \div Half) % Half, lo |-> lo % Half]

\* a / d in std::uint32_t, for a divisor d that divides 2^16
Div32(a, d) == a.hi * (Half \div d) + a.lo \div d

\* line 66: (file_size + BLOCK_SIZE - 1) / BLOCK_SIZE in std::uint32_t; the
\* arithmetic being modular, adding BLOCK_SIZE - 1 is adding BLOCK_SIZE and
\* subtracting 1
PacketSize32(fs) == Div32(Add32(fs, ToU32(BLOCK_SIZE - 1)), BLOCK_SIZE)

\* packet_size of do_flash: the block count carried by FLASH_BEGIN
PacketSize(fs) == PacketSize32(ToU32(fs))

\* flash_read.data_[3] >> 4U  and  flash_read.data_[3] & 0xF
HighNibble_ShiftsBy3(b) == b \div 8
HighNibble(b) == b \div 16
LowNibble(b) == b % 16

\* one request handed to loader.transceive, with the outcome of the exchange
Request(cmd, size, num, ok) == [cmd |-> cmd, size |-> size, num |-> num, ok |-> ok]

\* the history of requests after one more exchange
Sent(cmd, size, num, ok) ==
  IF Len(log) < MaxLog THEN Append(log, Request(cmd, size, num, ok)) ELSE log

\* std::ifstream of an image that could not be opened
ClosedStream == [is_open |-> FALSE, size |-> 0, pos |-> 0, eofbit |-> FALSE,
                 failbit |-> TRUE, badbit |-> FALSE, io_error |-> FALSE]
\* std::ifstream of an image of the given size, just opened
OpenStream(size) == [is_open |-> TRUE, size |-> size, pos |-> 0, eofbit |-> FALSE,
                     failbit |-> FALSE, badbit |-> FALSE, io_error |-> FALSE]
\* the stream before line 59 is reached
NoStream == [is_open |-> FALSE, size |-> 0, pos |-> 0, eofbit |-> FALSE,
             failbit |-> FALSE, badbit |-> FALSE, io_error |-> FALSE]

\* std::ios::good(), std::ios::fail()
good(f) == ~f.eofbit /\ ~f.failbit /\ ~f.badbit
fail(f) == f.failbit \/ f.badbit

\* std::istream::tellg(): -1 on a failed stream, else the position
tellg(f) == IF fail(f) THEN -1 ELSE f.pos

\* std::istream::seekg: clears eofbit; moves unless the stream has failed
seekg(f, to) == IF fail(f) THEN [f EXCEPT !.eofbit = FALSE]
                ELSE [f EXCEPT !.eofbit = FALSE, !.pos = to]

\* std::istream::read(buff, n) followed by gcount(). err says that the
\* operating system fails the read; how tells what the library makes of it:
\* "bad" (the stream buffer throws, read sets badbit) or "eof" (the stream
\* buffer reports no more characters, read sets eofbit and failbit)
read(f, n, err, how) ==
  IF ~good(f)
  THEN [stream |-> [f EXCEPT !.failbit = TRUE], gcount |-> 0]
  ELSE IF err
  THEN [stream |-> IF how = "bad"
                   THEN [f EXCEPT !.badbit = TRUE, !.io_error = TRUE]
                   ELSE [f EXCEPT !.eofbit = TRUE, !.failbit = TRUE, !.io_error = TRUE],
        gcount |-> 0]
  ELSE LET got == Min(n, f.size - f.pos)
       IN [stream |-> [f EXCEPT !.pos = f.pos + got,
                                !.eofbit = (got < n),
                                !.failbit = (got < n)],
           gcount |-> got]

----------------------------------------------------------------------------
(* Initial state: the command line is given, nothing has run *)

Init ==
  /\ vm \in [command : Tokens, file : FileNames, chip : ChipTags,
             flash_param : FlashParams, offset : Offsets, help : BOOLEAN]
  /\ NDEBUG \in BOOLEAN
  /\ pc = "main"
  /\ opt = "NoOpt"
  /\ exit_status = "running"
  /\ loader = "unopened"
  /\ log = <<>>
  /\ chip_id_ret = 0
  /\ flash_read = <<>>
  /\ magic_number = 0
  /\ spi_mode = 0
  /\ spi_speed = 0
  /\ flash_chip_size = 0
  /\ file = NoStream
  /\ file_size = 0
  /\ packet_size = 0
  /\ sequence = 0
  /\ byte_read = 0
  /\ patched = <<>>

----------------------------------------------------------------------------
(* How a run ends *)

\* an exception leaves do_flash or main: nothing catches it, std::terminate
\* ends the process. Whether the stack is unwound first, so that the
\* destructor of loader runs ("closed"), or not ("released": the handle goes
\* with the process) is left to the implementation
Throw ==
  /\ pc' = "error"
  /\ exit_status' = "abort"
  /\ loader' \in (IF loader = "open" THEN {"closed", "released"} ELSE {loader})

\* assert fails: abort() ends the process and runs no destructor
AssertFails ==
  /\ pc' = "error"
  /\ exit_status' = "abort"
  /\ loader' = (IF loader = "open" THEN "released" ELSE loader)

\* main returns
Return(status) ==
  /\ pc' = "done"
  /\ exit_status' = status

\* control moves on inside main or do_flash
Goto(label) ==
  /\ pc' = label
  /\ UNCHANGED exit_status

----------------------------------------------------------------------------
(* main *)

\* lines 123-133: store() parses the command line, converting the command
\* token with operator>>, a failed conversion being an exception of
\* boost::program_options; then the help and the missing-command exits
MainParse ==
  /\ pc = "main"
  /\ LET parsed == ParseCommandLineOption(vm.command)
     IN IF vm.command # "" /\ parsed.fail
        THEN Throw /\ UNCHANGED opt
        ELSE /\ opt' = (IF vm.command = "" THEN "NoOpt" ELSE parsed.opt)
             /\ UNCHANGED loader
             /\ IF vm.help THEN Return("EXIT_SUCCESS")
                ELSE IF vm.command = "" \/ opt' = "NoOpt" THEN Return("EXIT_FAILURE")
                ELSE Goto("switch")
  /\ UNCHANGED <<vm, NDEBUG, log, chip_id_ret, geometry, image>>

\* lines 150-160: info and monitor fall through to the break and main returns
MainInfoMonitor ==
  /\ pc = "switch"
  /\ opt \in {"Info", "Monitor", "NoOpt"}
  /\ Return("EXIT_SUCCESS")
  /\ UNCHANGED <<vm, NDEBUG, opt, loader, log, chip_id_ret, geometry, image>>

\* MainFlash with the lookup of the chip tag left out: an unknown tag runs
\* the one flashing function there is
MainFlash_NoLookup ==
  /\ pc = "switch"
  /\ opt = "Flash"
  /\ IF vm.offset = NoValue
     THEN Throw
     ELSE Goto("do_flash") /\ UNCHANGED loader
  /\ UNCHANGED <<vm, NDEBUG, opt, log, chip_id_ret, geometry, image>>

\* lines 140-147: the flash command reads its options (as<std::string>() of a
\* missing offset throws), looks the chip tag up with FLASH_FN_MAP.at, which
\* throws on an unknown key, and calls the function found
MainFlash ==
  /\ pc = "switch"
  /\ opt = "Flash"
  /\ IF vm.offset = NoValue \/ vm.chip \notin FLASH_FN_MAP
     THEN Throw
     ELSE Goto("do_flash") /\ UNCHANGED loader
  /\ UNCHANGED <<vm, NDEBUG, opt, log, chip_id_ret, geometry, image>>

----------------------------------------------------------------------------
(* do_flash *)

\* lines 37-39: the extension check
CheckExtension ==
  /\ pc = "do_flash"
  /\ IF extension(vm.file) = <<"e", "l", "f">>
     THEN Throw
     ELSE Goto("open_serial") /\ UNCHANGED loader
  /\ UNCHANGED <<vm, NDEBUG, opt, log, chip_id_ret, geometry, image>>

\* line 41: the constructor of Serial opens the port, or throws
OpenSerial ==
  /\ pc = "open_serial"
  /\ \E ok \in BOOLEAN :
       IF ok THEN Goto("sync") /\ loader' = "open" ELSE Throw
  /\ UNCHANGED <<vm, NDEBUG, opt, log, chip_id_ret, geometry, image>>

\* a statement loader.transceive(request) whose response is not used: the
\* request is sent; control moves on when the exchange succeeds and an
\* exception leaves do_flash when it does not
Transceive(at, cmd, size, num, next) ==
  /\ pc = at
  /\ \E ok \in BOOLEAN :
       /\ log' = Sent(cmd, size, num, ok)
       /\ IF ok THEN Goto(next) /\ UNCHANGED loader ELSE Throw

\* Sync with the identification left out: the session goes on to attach
Sync_SkipsIdentify ==
  /\ Transceive("sync", "SYNC", 0, 0, "spi_attach")
  /\ UNCHANGED <<vm, NDEBUG, opt, chip_id_ret, geometry, image>>

\* line 42
Sync ==
  /\ Transceive("sync", "SYNC", 0, 0, "read_reg")
  /\ UNCHANGED <<vm, NDEBUG, opt, chip_id_ret, geometry, image>>

\* ReadReg with the result of the lookup ignored: an unknown chip goes on
ReadReg_IgnoresLookup ==
  /\ pc = "read_reg"
  /\ \E ok \in BOOLEAN :
       /\ log' = Sent("READ_REG", 0, 0, ok)
       /\ IF ok
          THEN \E value \in ChipIdValues :
                 /\ chip_id_ret' = value
                 /\ Goto("spi_attach") /\ UNCHANGED loader
          ELSE Throw /\ UNCHANGED chip_id_ret
  /\ UNCHANGED <<vm, NDEBUG, opt, geometry, image>>

\* lines 44-46: read the identification register and look the value up
ReadReg ==
  /\ pc = "read_reg"
  /\ \E ok \in BOOLEAN :
       /\ log' = Sent("READ_REG", 0, 0, ok)
       /\ IF ok
          THEN \E value \in ChipIdValues :
                 /\ chip_id_ret' = value
                 /\ IF get_chip_info(value)
                    THEN Goto("spi_attach") /\ UNCHANGED loader
                    ELSE Throw
          ELSE Throw /\ UNCHANGED chip_id_ret
  /\ UNCHANGED <<vm, NDEBUG, opt, geometry, image>>

\* line 48
SpiAttach ==
  /\ Transceive("spi_attach", "SPI_ATTACH", 0, 0, "spi_set_params")
  /\ UNCHANGED <<vm, NDEBUG, opt, chip_id_ret, geometry, image>>

\* line 49
SpiSetParams ==
  /\ Transceive("spi_set_params", "SPI_SET_PARAMS", 0, 0, "flash_read")
  /\ UNCHANGED <<vm, NDEBUG, opt, chip_id_ret, geometry, image>>

\* lines 50-57: read 16 bytes at offset 0 of the flash, assert the magic
\* number (compiled out under NDEBUG) and decode the geometry; Data is the
\* set the bytes read back are drawn from
Probe(Data) ==
  /\ pc = "flash_read"
  /\ \E ok \in BOOLEAN :
       /\ log' = Sent("FLASH_READ_SLOW", 16, 0, ok)
       /\ IF ok
          THEN \E data_ \in Data :
                 /\ flash_read' = data_
                 /\ magic_number' = data_[1]
                 /\ IF ~NDEBUG /\ data_[1] # ESP_MAGIC_NUMBER
                    THEN /\ AssertFails
                         /\ UNCHANGED <<spi_mode, spi_speed, flash_chip_size>>
                    ELSE /\ spi_mode' = data_[3]
                         /\ spi_speed' = HighNibble(data_[4])
                         /\ flash_chip_size' = LowNibble(data_[4])
                         /\ Goto("open_file")
                         /\ UNCHANGED loader
          ELSE Throw /\ UNCHANGED geometry
  /\ UNCHANGED <<vm, NDEBUG, opt, chip_id_ret, image>>

FlashReadSlow == Probe(FlashReadData)

\* lines 59-67: open the image, measure it by seeking to its end, and
\* compute the block count. Nothing tests whether the stream opened
OpenFile ==
  /\ pc = "open_file"
  /\ \E opened \in BOOLEAN, size \in FileSizes :
       LET f0 == IF opened THEN OpenStream(size) ELSE ClosedStream
           fstart == tellg(f0)
           f1 == seekg(f0, f0.size)
           fs == tellg(f1) - fstart
       IN /\ file' = seekg(f1, 0)
          /\ file_size' = fs
          /\ packet_size' = PacketSize(fs)
  /\ Goto("flash_begin")
  /\ UNCHANGED <<vm, NDEBUG, opt, loader, log, chip_id_ret, geometry,
                 sequence, byte_read, patched>>

\* line 69
FlashBegin ==
  /\ Transceive("flash_begin", "FLASH_BEGIN", file_size, packet_size, "loop")
  /\ UNCHANGED <<vm, NDEBUG, opt, chip_id_ret, geometry, image>>

\* the history of set_binary_header calls after one more call
Patch(gcount) ==
  IF Len(patched) < MaxPatches
  THEN Append(patched, [sequence |-> sequence, byte_read |-> gcount,
                        spi_mode |-> spi_mode, spi_speed |-> spi_speed,
                        flash_chip_size |-> flash_chip_size])
  ELSE patched

\* FlashData with the failure of the exchange swallowed: the loop goes on
FlashData_GoesOnAfterFailure ==
  /\ pc = "loop"
  /\ ~file.eofbit
  /\ \E ok \in BOOLEAN, err \in (IF good(file) THEN BOOLEAN ELSE {FALSE}) :
     \E how \in (IF err THEN {"bad", "eof"} ELSE {"bad"}) :
       LET r == read(file, BLOCK_SIZE, err, how)
       IN /\ file' = r.stream
          /\ byte_read' = r.gcount
          /\ patched' = (IF sequence = 0 THEN Patch(r.gcount) ELSE patched)
          /\ log' = Sent("FLASH_DATA", r.gcount, sequence, ok)
          /\ sequence' = (sequence + 1) % SeqMod
          /\ Goto("loop")
          /\ UNCHANGED loader
  /\ UNCHANGED <<vm, NDEBUG, opt, chip_id_ret, geometry, file_size, packet_size>>

\* FlashData declaring the size of the buffer instead of the count read
FlashData_DeclaresBlockSize ==
  /\ pc = "loop"
  /\ ~file.eofbit
  /\ \E ok \in BOOLEAN, err \in (IF good(file) THEN BOOLEAN ELSE {FALSE}) :
     \E how \in (IF err THEN {"bad", "eof"} ELSE {"bad"}) :
       LET r == read(file, BLOCK_SIZE, err, how)
       IN /\ file' = r.stream
          /\ byte_read' = BLOCK_SIZE
          /\ patched' = (IF sequence = 0 THEN Patch(BLOCK_SIZE) ELSE patched)
          /\ log' = Sent("FLASH_DATA", BLOCK_SIZE, sequence, ok)
          /\ IF ok
             THEN /\ sequence' = (sequence + 1) % SeqMod
                  /\ Goto("loop")
                  /\ UNCHANGED loader
             ELSE Throw /\ UNCHANGED sequence
  /\ UNCHANGED <<vm, NDEBUG, opt, chip_id_ret, geometry, file_size, packet_size>>

\* lines 72-80, one turn of the loop: the stream is not at end of file; read
\* a block, patch the header of block 0, send the block, count
FlashData ==
  /\ pc = "loop"
  /\ ~file.eofbit
  /\ \E ok \in BOOLEAN, err \in (IF good(file) THEN BOOLEAN ELSE {FALSE}) :
     \E how \in (IF err THEN {"bad", "eof"} ELSE {"bad"}) :
       LET r == read(file, BLOCK_SIZE, err, how)
       IN /\ file' = r.stream
          /\ byte_read' = r.gcount
          /\ patched' = (IF sequence = 0 THEN Patch(r.gcount) ELSE patched)
          /\ log' = Sent("FLASH_DATA", r.gcount, sequence, ok)
          /\ IF ok
             THEN /\ sequence' = (sequence + 1) % SeqMod
                  /\ Goto("loop")
                  /\ UNCHANGED loader
             ELSE Throw /\ UNCHANGED sequence
  /\ UNCHANGED <<vm, NDEBUG, opt, chip_id_ret, geometry, file_size, packet_size>>

\* line 72: the loop ends when the stream is at end of file
LoopExit ==
  /\ pc = "loop"
  /\ file.eofbit
  /\ Goto("flash_end")
  /\ UNCHANGED <<vm, NDEBUG, opt, loader, log, chip_id_ret, geometry, image>>

\* lines 82-83 and 148, 160: end the session with a reboot; do_flash returns,
\* the destructor of loader closes the port, main returns
FlashEnd ==
  /\ pc = "flash_end"
  /\ \E ok \in BOOLEAN :
       /\ log' = Sent("FLASH_END", 0, 0, ok)
       /\ IF ok THEN Return("EXIT_SUCCESS") /\ loader' = "closed" ELSE Throw
  /\ UNCHANGED <<vm, NDEBUG, opt, chip_id_ret, geometry, image>>

----------------------------------------------------------------------------

Next ==
  \/ MainParse
  \/ MainInfoMonitor
  \/ MainFlash
  \/ CheckExtension
  \/ OpenSerial
  \/ Sync
  \/ ReadReg
  \/ SpiAttach
  \/ SpiSetParams
  \/ FlashReadSlow
  \/ OpenFile
  \/ FlashBegin
  \/ FlashData
  \/ LoopExit
  \/ FlashEnd

Spec == Init /\ [][Next]_vars

\* the single thread of the program runs whenever it can
FairSpec == Spec /\ WF_vars(Next)

----------------------------------------------------------------------------
(* The probe and what follows it, over every value of the byte that holds  *)
(* the speed and the size of the flash                                     *)

\* the bytes read back, with byte 3 ranging over all its values
AnyByteData == {<<ESP_MAGIC_NUMBER, 0, sm, b3>> : sm \in {0, 2}, b3 \in 0..255}

\* a flash session that has identified the chip and set the flash up
ProbeInit ==
  /\ vm \in [command : {"flash"}, file : {BinName}, chip : {"esp32c3"},
             flash_param : FlashParams, offset : {"10000"}, help : {FALSE}]
  /\ NDEBUG \in BOOLEAN
  /\ pc = "flash_read"
  /\ opt = "Flash"
  /\ exit_status = "running"
  /\ loader = "open"
  /\ log = <<Request("SYNC", 0, 0, TRUE), Request("READ_REG", 0, 0, TRUE),
             Request("SPI_ATTACH", 0, 0, TRUE), Request("SPI_SET_PARAMS", 0, 0, TRUE)>>
  /\ chip_id_ret \in CHIP_REGISTRY
  /\ flash_read = <<>>
  /\ magic_number = 0
  /\ spi_mode = 0
  /\ spi_speed = 0
  /\ flash_chip_size = 0
  /\ file = NoStream
  /\ file_size = 0
  /\ packet_size = 0
  /\ sequence = 0
  /\ byte_read = 0
  /\ patched = <<>>

FlashReadSlowAnyByte == Probe(AnyByteData)

ProbeNext ==
  \/ FlashReadSlowAnyByte
  \/ OpenFile
  \/ FlashBegin
  \/ FlashData
  \/ LoopExit
  \/ FlashEnd

ProbeSpec == ProbeInit /\ [][ProbeNext]_vars

----------------------------------------------------------------------------
(* The block count over the whole range of std::uint32_t. The image is not  *)
(* read here: file_size holds the 32-bit size as its two halves and         *)
(* packet_size the count that line 66 computes from it                      *)

\* sizes next to 0, to 2^31 and to 2^32, each next to a multiple of BLOCK_SIZE
LargeSizes ==
  {[hi |-> h, lo |-> k * BLOCK_SIZE + r] :
     h \in {0, 1, Half \div 2, Half - 2, Half - 1},
     k \in {0, 1, 14, 15},
     r \in {0, 1, 2, BLOCK_SIZE - 2, BLOCK_SIZE - 1}}

\* a flash session that has probed the flash
MeasureInit ==
  /\ vm \in [command : {"flash"}, file : {BinName}, chip : {"esp32c3"},
             flash_param : FlashParams, offset : {"10000"}, help : {FALSE}]
  /\ NDEBUG \in BOOLEAN
  /\ pc = "open_file"
  /\ opt = "Flash"
  /\ exit_status = "running"
  /\ loader = "open"
  /\ log = <<Request("SYNC", 0, 0, TRUE), Request("READ_REG", 0, 0, TRUE),
             Request("SPI_ATTACH", 0, 0, TRUE), Request("SPI_SET_PARAMS", 0, 0, TRUE),
             Request("FLASH_READ_SLOW", 16, 0, TRUE)>>
  /\ chip_id_ret \in CHIP_REGISTRY
  /\ flash_read = <<ESP_MAGIC_NUMBER, 0, 2, 35>>
  /\ magic_number = ESP_MAGIC_NUMBER
  /\ spi_mode = 2
  /\ spi_speed = HighNibble(35)
  /\ flash_chip_size = LowNibble(35)
  /\ file = NoStream
  /\ file_size = 0
  /\ packet_size = 0
  /\ sequence = 0
  /\ byte_read = 0
  /\ patched = <<>>

\* lines 60-66 for an image of any 32-bit size: measure it, count its blocks
MeasureImage ==
  /\ pc = "open_file"
  /\ \E size \in LargeSizes :
       /\ file_size' = size
       /\ packet_size' = PacketSize32(size)
  /\ Goto("flash_begin")
  /\ UNCHANGED <<vm, NDEBUG, opt, loader, log, chip_id_ret, geometry,
                 file, sequence, byte_read, patched>>

MeasureNext == MeasureImage

MeasureSpec == MeasureInit /\ [][MeasureNext]_vars

----------------------------------------------------------------------------
(* Vocabulary of the claims *)

IsData(r) == r.cmd = "FLASH_DATA"
IsBegin(r) == r.cmd = "FLASH_BEGIN"

\* the write-block requests issued so far, in order
DataRequests == SelectSeq(log, IsData)

Issued(cmd) == \E i \in DOMAIN log : log[i].cmd = cmd

\* ceil(a / b), from its definition
CeilDiv(a, b) == CHOOSE n \in 0..((a \div b) + 1) : n * b >= a /\ (n - 1) * b < a

\* a file named *.elf
IsElfName(name) ==
  Len(name) >= 4 /\ SubSeq(name, Len(name) - 3, Len(name)) = <<".", "e", "l", "f">>

\* the flash command ran to the end of do_flash: every exchange succeeded
FlashSucceeded ==
  pc = "done" /\ opt = "Flash" /\ Issued("FLASH_END")

\* the image was opened and every read of it succeeded
ImageReadable == file.is_open /\ ~file.io_error

\* the order of the requests that come before the program loop
StepOrder == <<"SYNC", "READ_REG", "SPI_ATTACH", "SPI_SET_PARAMS",
               "FLASH_READ_SLOW", "FLASH_BEGIN">>

----------------------------------------------------------------------------
(* Claims *)

\* C1: a session over a readable image of size S in which every exchange
\* succeeds sends exactly N = ceil(S / BLOCK_SIZE) write-block requests, N
\* being the block count of the begin-flash request, with the sequence
\* numbers 0..N-1; no extra empty block when S is a multiple of BLOCK_SIZE.
C1_BlockCountIsCeil ==
  (FlashSucceeded /\ ImageReadable) =>
    /\ packet_size = CeilDiv(file.size, BLOCK_SIZE)
    /\ log[6] = Request("FLASH_BEGIN", file.size, packet_size, TRUE)
    /\ Len(DataRequests) = packet_size
    /\ \A k \in DOMAIN DataRequests : DataRequests[k].num = k - 1

\* C2: for an input file named *.elf, do_flash fails before the serial
\* device is opened: the device is never opened and no request is sent.
C2_ElfRejectedBeforeOpen ==
  (opt = "Flash" /\ IsElfName(vm.file)) =>
    /\ loader = "unopened"
    /\ log = <<>>
    /\ pc \in {"main", "switch", "do_flash", "done", "error"}

\* C3: if the image cannot be opened, the session aborts before any device
\* interaction: no request of any kind has been sent.
C3_UnopenableImageNoRequest ==
  (file.failbit /\ ~file.is_open) =>
    /\ log = <<>>
    /\ loader = "unopened"

\* C4: every session terminates: it eventually completes Finalize or aborts
\* with an error, also when the image could not be opened or a read failed
\* without end-of-file being set.
C4_SessionTerminates == <>(pc \in {"done", "error"})

\* C5: the requests are issued in the order synchronize, read-register,
\* attach, set-parameters, read-flash, begin-flash, write-block*, end-flash:
\* each is issued only after all the earlier ones were issued and completed,
\* none is skipped, none but write-block is issued twice, and nothing follows
\* end-flash.
C5_StrictOrder ==
  \A i \in DOMAIN log :
    /\ i <= Len(StepOrder) => log[i].cmd = StepOrder[i]
    /\ i > Len(StepOrder) => log[i].cmd \in {"FLASH_DATA", "FLASH_END"}
    /\ i < Len(log) => (log[i].ok /\ log[i].cmd # "FLASH_END")

C5_Witness ==
  /\ FlashSucceeded
  /\ Len(DataRequests) >= 2
  /\ log[Len(log)].cmd = "FLASH_END"

\* C6: after an exchange fails the session issues no further request: the
\* failed request is the last one and the session has ended in an error; so
\* a failure before begin-flash means no erase, and a failure of begin-flash
\* or of a write-block means no later write-block and no end-flash.
C6_NoRequestAfterFailure ==
  \A i \in DOMAIN log :
    ~log[i].ok => (i = Len(log) /\ pc = "error" /\ exit_status = "abort")

C6_Witness ==
  /\ Len(DataRequests) >= 2
  /\ ~log[Len(log)].ok
  /\ log[Len(log)].cmd = "FLASH_DATA"

\* C7: when the identification register holds a value that the chip registry
\* does not know, the session ends in an error and issues no begin-flash,
\* write-block or end-flash request (nor any other request).
C7_UnknownChipAborts ==
  (Len(log) >= 2 /\ log[2].ok /\ ~get_chip_info(chip_id_ret)) =>
    /\ pc = "error"
    /\ Len(log) = 2
    /\ ~Issued("FLASH_BEGIN") /\ ~Issued("FLASH_DATA") /\ ~Issued("FLASH_END")

C7_Witness ==
  /\ Len(log) = 2 /\ log[2].cmd = "READ_REG" /\ log[2].ok
  /\ chip_id_ret \notin CHIP_REGISTRY
  /\ pc = "error"

\* C8: when the chip tag of the command line is no key of FLASH_FN_MAP, the
\* flash command fails before the serial device is opened and performs no
\* exchange.
C8_UnknownTagNoIO ==
  (vm.chip \notin FLASH_FN_MAP) =>
    /\ loader = "unopened"
    /\ log = <<>>
    /\ (opt = "Flash" /\ ~vm.help /\ pc \notin {"main", "switch"}) =>
         (pc = "error" /\ exit_status = "abort")

C8_Witness ==
  /\ vm.chip \notin FLASH_FN_MAP
  /\ vm.offset # NoValue
  /\ opt = "Flash" /\ ~vm.help
  /\ pc = "error"

\* C9: set_binary_header is applied to the block with sequence number 0 and
\* to no other, at most once per session, only after the read-flash-bytes
\* exchange of the probe completed and with the values it produced; and the
\* byte count declared for block 0 is the count that was read.
C9_PatchBlock0Once ==
  /\ Len(patched) <= 1
  /\ \A i \in DOMAIN patched :
       /\ patched[i].sequence = 0
       /\ Len(log) >= 5 /\ log[5].cmd = "FLASH_READ_SLOW" /\ log[5].ok
       /\ patched[i].spi_mode = spi_mode
       /\ patched[i].spi_speed = spi_speed
       /\ patched[i].flash_chip_size = flash_chip_size
       /\ Len(DataRequests) >= 1
       /\ DataRequests[1].num = 0
       /\ DataRequests[1].size = patched[1].byte_read

\* C10: for an image of size 0 the begin-flash request is issued with total
\* size 0 and block count 0, and no write-block request is sent between
\* begin-flash and end-flash.
C10_EmptyImageNoBlock ==
  (FlashSucceeded /\ ImageReadable /\ file.size = 0) =>
    /\ log[6] = Request("FLASH_BEGIN", 0, 0, TRUE)
    /\ Len(DataRequests) = 0

\* the sum of the byte counts declared by a sequence of requests
RECURSIVE SumSizes(_)
SumSizes(reqs) == IF reqs = <<>> THEN 0 ELSE reqs[1].size + SumSizes(Tail(reqs))

\* C11: for a readable image of size S, the write-block request with
\* sequence number k declares min(BLOCK_SIZE, S - k * BLOCK_SIZE) bytes, so
\* only the last blocks may be short, and over a successful session the
\* declared byte counts add up to S.
C11_ByteCounts ==
  ImageReadable =>
    /\ \A k \in DOMAIN DataRequests :
         DataRequests[k].size =
           Min(BLOCK_SIZE, file.size - DataRequests[k].num * BLOCK_SIZE)
    /\ FlashSucceeded => SumSizes(DataRequests) = file.size

C11_Witness ==
  /\ FlashSucceeded /\ ImageReadable
  /\ Len(DataRequests) = 3
  /\ DataRequests[3].size > 0 /\ DataRequests[3].size < BLOCK_SIZE
  /\ SumSizes(DataRequests) = 2 * BLOCK_SIZE + DataRequests[3].size

\* C12: unless a flash-param override is given, the geometry values handed
\* to set_binary_header for block 0 are the values decoded from the bytes
\* read back during the probe: spi_mode is byte 2, spi_speed the high and
\* the size code the low nibble of byte 3, so that 16 * spi_speed + size
\* code is byte 3, for every value 0..255 of the byte.
C12_PatchedGeometryIsProbed ==
  \A i \in DOMAIN patched :
    vm.flash_param = NoValue =>
      /\ patched[i].spi_mode = flash_read[3]
      /\ patched[i].spi_speed \in 0..15
      /\ patched[i].flash_chip_size \in 0..15
      /\ 16 * patched[i].spi_speed + patched[i].flash_chip_size = flash_read[4]

C12_Witness ==
  /\ vm.flash_param = NoValue
  /\ Len(patched) = 1
  /\ flash_read[4] = 255
  /\ patched[1].spi_speed = 15 /\ patched[1].flash_chip_size = 15
  /\ FlashSucceeded

\* C13: once a session has opened the serial device, the session closes it
\* when it ends, on every path: after a successful end-flash and after every
\* abort; no session ends with its device still open.
C13_DeviceClosedAtEnd ==
  (pc \in {"done", "error"} /\ loader # "unopened") => loader = "closed"

\* C14: the commands info and monitor are accepted as valid commands, open
\* no serial device, perform no exchange, and the run exits with success.
C14_InfoMonitorNoAction ==
  vm.command \in {"info", "monitor"} =>
    /\ loader = "unopened"
    /\ log = <<>>
    /\ pc \in {"main", "switch", "done"}
    /\ pc # "main" => opt = (IF vm.command = "info" THEN "Info" ELSE "Monitor")
    /\ pc = "done" => exit_status = "EXIT_SUCCESS"

C14_Witness ==
  /\ vm.command = "monitor"
  /\ ~vm.help
  /\ opt = "Monitor"
  /\ pc = "done"
  /\ exit_status = "EXIT_SUCCESS"

\* ceil(S / d) of a 32-bit value S held as two halves, without any wrap
Ceil32(a, d) == Div32(a, d) + (IF a.lo % d = 0 THEN 0 ELSE 1)

\* C15: for every image size S in 0..2^32-1 the block count computed in
\* 32-bit unsigned arithmetic as (S + 4095) / 4096 is ceil(S / 4096): the
\* addition never wraps.
C15_BlockCountNeverWraps ==
  pc = "flash_begin" => packet_size = Ceil32(file_size, BLOCK_SIZE)

IsEnd(r) == r.cmd = "FLASH_END"

\* C16: in a session where every exchange succeeds the end-flash request is
\* issued exactly once: at most once, only after the write-block request
\* that reached the end of the image has completed, as the last exchange of
\* the session; and a session that has entered the program loop does issue
\* it unless an exchange fails.
C16_EndFlashExactlyOnce ==
  /\ [](/\ Len(SelectSeq(log, IsEnd)) <= 1
        /\ \A i \in DOMAIN log :
             IsEnd(log[i]) =>
               /\ i = Len(log)
               /\ pc \in {"done", "error"}
               /\ file.eofbit
               /\ IsData(log[i - 1]) /\ log[i - 1].ok)
  /\ [](pc = "loop" => <>(pc = "error" \/ Issued("FLASH_END")))

\* C17: the sequence numbers of the write-block requests of a session start
\* at 0 and each is one greater than the one before, so that no two blocks
\* share a sequence number, whatever the image and the outcome of the reads.
C17_SequenceContiguous ==
  /\ \A k \in DOMAIN DataRequests : DataRequests[k].num = k - 1
  /\ \A j, k \in DOMAIN DataRequests :
       j # k => DataRequests[j].num # DataRequests[k].num

\* C18: begin-flash is issued only in sessions where the first byte read
\* back during the probe is the magic number of an image, whatever the flash
\* of the target holds.
C18_EraseOnlyWithMagic ==
  Issued("FLASH_BEGIN") => magic_number = ESP_MAGIC_NUMBER

====
